---- MODULE Spec2Model ----
(***************************************************************************)
(* Model of ConnectorSignal (src/__init__.py): the opsdroid connector for  *)
(* signal-cli-rest-api.  JSON objects are functions whose DOMAIN is the    *)
(* set of keys that are present; Python exceptions are the "exc" field of  *)
(* the result of the operator that models the raising function.           *)
(***************************************************************************)
EXTENDS Integers, Sequences, FiniteSets, TLC

VARIABLES
    rooms,      \* self.rooms: alias -> address
    whitelist,  \* self.whitelist: frozenset of addresses
    inv_rooms,  \* self.inv_rooms: address -> alias
    interval,   \* listen's local: the poll interval
    session,    \* self.session: 0 is None, n > 0 is the n-th ClientSession
    sessions,   \* the ClientSession objects created so far: "open" / "closed"
    dpc,        \* position of disconnect(): "idle" / "closing"
    dsession,   \* the session disconnect() is closing
    pc,         \* position of listen()
    about,      \* listen's local: the /v1/about response body
    msg,        \* listen's local: the websocket frame just read
    packets,    \* listen's local: what is left of the polled array
    pending,    \* parse_packet: events not yet handed to opsdroid.parse
    exc,        \* parse_packet: the exception it ends with, "" for none
    cur,        \* parse_packet's argument (the packet being decoded)
    nparsed,    \* number of parse_packet calls so far
    router,     \* events handed to opsdroid.parse, in order, each with the
                \* number of the parse_packet call that made it
    requests,   \* requests listen() issued on the bridge, in order
    frames,     \* websocket frames read so far, in order
    arrived,    \* packets received so far, in frame / response-array order
    slept,      \* number of asyncio.sleep(interval) calls completed
    spc,        \* position of the send_* handler: "idle" / "bytes" / "wait"
    send,       \* the send_* invocation that runs or ran last
    lookup      \* the last alias lookups made

vars == <<rooms, whitelist, inv_rooms, interval, session, sessions, dpc,
          dsession, pc, about, msg, packets, pending, exc, cur,
          nparsed, router, requests, frames, arrived, slept, spc, send,
          lookup>>

---------------------------------------------------------------------------
(* Python values *)

EmptyDict == [k \in {} |-> k]

\* Python None in a position that otherwise holds one value: <<>> is None,
\* <<v>> is the value v.
None == <<>>

Some(v) == <<v>>

Has(d, k) == k \in DOMAIN d

\* bool(d[k]) for a key holding a JSON object: present and not empty.
TruthyDictAt(d, k) == Has(d, k) /\ DOMAIN d[k] # {}

\* bool(d.get(k)) for a key holding a string.
TruthyStrAt(d, k) == Has(d, k) /\ d[k] # ""

\* bool(d.get(k)) for a key holding a JSON boolean.
TruthyBoolAt(d, k) == Has(d, k) /\ d[k] = TRUE

\* d.get(k) for an optional value.
GetOpt(d, k) == IF Has(d, k) THEN Some(d[k]) ELSE None

\* d.get(k, default)
Get(d, k, default) == IF Has(d, k) THEN d[k] ELSE default

\* A result of a call: the events it handed to the router and the
\* exception it raised ("" when it returned).
Returned(evs) == [events |-> evs, exc |-> ""]

Raised(evs, e) == [events |-> evs, exc |-> e]

---------------------------------------------------------------------------
(* Strings that the code takes apart are sequences of character codes. *)

Slash == <<47>>

StrGroupDot == "group."

B64Alphabet ==
    << "A","B","C","D","E","F","G","H","I","J","K","L","M","N","O","P",
       "Q","R","S","T","U","V","W","X","Y","Z","a","b","c","d","e","f",
       "g","h","i","j","k","l","m","n","o","p","q","r","s","t","u","v",
       "w","x","y","z","0","1","2","3","4","5","6","7","8","9","+","/" >>

B64Char(n) == B64Alphabet[n + 1]

\* base64.b64encode(bytes).decode("ascii")
RECURSIVE B64Encode(_)
B64Encode(b) ==
    IF Len(b) = 0 THEN ""
    ELSE IF Len(b) = 1 THEN
        B64Char(b[1] \div 4) \o B64Char((b[1] % 4) * 16) \o "=="
    ELSE IF Len(b) = 2 THEN
        B64Char(b[1] \div 4) \o B64Char((b[1] % 4) * 16 + b[2] \div 16)
            \o B64Char((b[2] % 16) * 4) \o "="
    ELSE
        B64Char(b[1] \div 4) \o B64Char((b[1] % 4) * 16 + b[2] \div 16)
            \o B64Char((b[2] % 16) * 4 + b[3] \div 64) \o B64Char(b[3] % 64)
            \o B64Encode(SubSeq(b, 4, Len(b)))

\* str.encode("ascii") succeeds iff every character is below 128.
IsAscii(s) == \A i \in 1..Len(s) : s[i] < 128

\* encode_group_id(group_id): [exc, value]
encode_group_id(group_id) ==
    IF IsAscii(group_id)
    THEN [exc |-> "", value |-> StrGroupDot \o B64Encode(group_id)]
    ELSE [exc |-> "UnicodeEncodeError", value |-> ""]

\* s.split("/")[0]: the characters before the first '/'.
RECURSIVE SplitHead(_)
SplitHead(s) ==
    IF Len(s) = 0 \/ <<s[1]>> = Slash THEN <<>>
    ELSE <<s[1]>> \o SplitHead(Tail(s))

---------------------------------------------------------------------------
(* Configuration and __init__ *)

\* dict(items): the alias table as a function (the keys of a dict are unique)
DictOf(items) ==
    [k \in {items[i][1] : i \in DOMAIN items} |->
        items[CHOOSE i \in DOMAIN items : items[i][1] = k][2]]

\* {v: k for k, v in rooms.items()}: a later item replaces an earlier one
InvDict(items) ==
    [v \in {items[i][2] : i \in DOMAIN items} |->
        items[CHOOSE i \in DOMAIN items :
                /\ items[i][2] = v
                /\ \A j \in DOMAIN items : items[j][2] = v => j <= i][1]]

\* frozenset(self.rooms.get(v, v) for v in config.get("whitelisted-numbers", []))
WhitelistOf(items, numbers) ==
    {Get(DictOf(items), numbers[i], numbers[i]) : i \in DOMAIN numbers}

\* config["bot-number"] and urllib.parse.quote of it
Number == "+10"

QuotedNumber == "%2B10"

\* config["url"]
BridgeUrl == "http://bridge:8080"

RECURSIVE FormatPath(_)
FormatPath(parts) ==
    IF Len(parts) = 0 THEN ""
    ELSE (IF Head(parts) = "{number}" THEN QuotedNumber ELSE Head(parts))
            \o FormatPath(Tail(parts))

\* make_url(path_format): path_format is given as its pieces, the placeholder
\* "{number}" being one piece; geturl() puts the '/' between host and path.
make_url(parts) ==
    BridgeUrl
        \o (IF Len(parts) > 0 /\ Head(parts) \in {"v1/attachments/"}
            THEN "/" ELSE "")
        \o FormatPath(parts)

lookup_target(target) == Get(rooms, target, target)

---------------------------------------------------------------------------
(* PacketDecoder: parse_packet and what it calls *)

StrImage == <<105, 109, 97, 103, 101>>

StrVideo == <<118, 105, 100, 101, 111>>

TypingTimeout == 15

\* Mutant of EnvelopeArgs: the display name read with envelope.get(), so
\* that its absence no longer drops the packet.
EnvelopeArgsLax(packet) ==
    IF /\ Has(packet, "envelope")
       /\ Has(packet.envelope, "sourceNumber")
       /\ Has(packet.envelope, "timestamp")
    THEN [exc |-> "",
          args |-> [user_id |-> packet.envelope.sourceNumber,
                    user |-> Get(packet.envelope, "sourceName", ""),
                    connector |-> "self",
                    raw_event |-> packet,
                    event_id |-> packet.envelope.timestamp]]
    ELSE [exc |-> "KeyError", args |-> EmptyDict]

\* try: envelope = packet["envelope"]; args = dict(...) except KeyError
EnvelopeArgs(packet) ==
    IF /\ Has(packet, "envelope")
       /\ Has(packet.envelope, "sourceNumber")
       /\ Has(packet.envelope, "sourceName")
       /\ Has(packet.envelope, "timestamp")
    THEN [exc |-> "",
          args |-> [user_id |-> packet.envelope.sourceNumber,
                    user |-> packet.envelope.sourceName,
                    connector |-> "self",
                    raw_event |-> packet,
                    event_id |-> packet.envelope.timestamp]]
    ELSE [exc |-> "KeyError", args |-> EmptyDict]

\* Mutant of IsAllowed: the test for an empty allow-set left out.
IsAllowedMembersOnly(user_id) == user_id \in whitelist

\* not (self.whitelist and args["user_id"] not in self.whitelist)
IsAllowed(user_id) == ~(whitelist # {} /\ user_id \notin whitelist)

\* Mutant of ResolveTarget: the reverse alias lookup left out.
ResolveTargetRaw(has_group, group_id, args) ==
    LET enc == IF has_group THEN encode_group_id(group_id)
               ELSE [exc |-> "", value |-> args.user_id]
    IN  [exc |-> enc.exc, args |-> ("target" :> enc.value) @@ args]

\* try: target = encode_group_id(<group id>) except KeyError: target = user_id
\* then args["target"] = self.inv_rooms.get(target, target)
ResolveTarget(has_group, group_id, args) ==
    LET enc == IF has_group THEN encode_group_id(group_id)
               ELSE [exc |-> "", value |-> args.user_id]
    IN  [exc |-> enc.exc,
         args |-> ("target" :> Get(inv_rooms, enc.value, enc.value)) @@ args]

parse_reaction(reaction, args) ==
    IF ~TruthyBoolAt(reaction, "isRemove") /\ ~Has(reaction, "emoji")
    THEN Raised(<<>>, "KeyError")
    ELSE IF ~Has(reaction, "targetAuthorNumber")
    THEN Raised(<<>>, "KeyError")
    ELSE IF ~Has(reaction, "targetSentTimestamp")
    THEN Raised(<<>>, "KeyError")
    ELSE
        LET emoji == IF TruthyBoolAt(reaction, "isRemove") THEN ""
                     ELSE reaction.emoji
            linked == [kind |-> "Event",
                       user_id |-> reaction.targetAuthorNumber,
                       target |-> args.target,
                       connector |-> args.connector,
                       event_id |-> reaction.targetSentTimestamp]
        IN  Returned(<<[kind |-> "Reaction", emoji |-> emoji,
                        linked_event |-> linked] @@ args>>)

parse_text(text, args) ==
    Returned(<<[kind |-> "Message", text |-> text] @@ args>>)

\* {"image": Image, "video": Video}.get(file_type, File)
EventClass(file_type) ==
    IF file_type = StrImage THEN "Image"
    ELSE IF file_type = StrVideo THEN "Video"
    ELSE "File"

parse_attachment(attachment, args) ==
    IF ~Has(attachment, "id") THEN Raised(<<>>, "KeyError")
    ELSE
        LET url == make_url(<<"v1/attachments/", attachment.id>>)
            name == GetOpt(attachment, "filename")
            mimetype == GetOpt(attachment, "contentType")
            file_type == SplitHead(IF mimetype = None THEN <<>>
                                   ELSE mimetype[1])
        IN  Returned(<<[kind |-> EventClass(file_type), url |-> url,
                        name |-> name, mimetype |-> mimetype] @@ args>>)

\* for attachment in (attachments or ()): await self.parse_attachment(...)
RECURSIVE ParseAttachments(_, _)
ParseAttachments(attachments, args) ==
    IF Len(attachments) = 0 THEN Returned(<<>>)
    ELSE
        LET first == parse_attachment(Head(attachments), args)
        IN  IF first.exc # "" THEN first
            ELSE LET rest == ParseAttachments(Tail(attachments), args)
                 IN  [events |-> first.events \o rest.events,
                      exc |-> rest.exc]

\* if reaction: parse_reaction elif text: parse_text
ReactionOrText(data_message, args) ==
    IF TruthyDictAt(data_message, "reaction")
    THEN parse_reaction(data_message.reaction, args)
    ELSE IF TruthyStrAt(data_message, "message")
    THEN parse_text(data_message.message, args)
    ELSE Returned(<<>>)

parse_data_message(data_message, args) ==
    LET has_group == /\ Has(data_message, "groupInfo")
                     /\ Has(data_message.groupInfo, "groupId")
        res == ResolveTarget(has_group,
                   IF has_group THEN data_message.groupInfo.groupId ELSE <<>>,
                   args)
    IN  IF res.exc # "" THEN Raised(<<>>, res.exc)
        ELSE
            LET first == ReactionOrText(data_message, res.args)
            IN  IF first.exc # "" THEN first
                ELSE
                    LET rest == ParseAttachments(
                                    Get(data_message, "attachments", <<>>),
                                    res.args)
                    IN  [events |-> first.events \o rest.events,
                         exc |-> rest.exc]

\* Mutant of parse_typing_message: the user id popped from the arguments is
\* not put back on the event.
ParseTypingUserPopped(typing_message, args) ==
    LET has_group == Has(typing_message, "groupId")
        res == ResolveTarget(has_group,
                   IF has_group THEN typing_message.groupId ELSE <<>>, args)
    IN  IF res.exc # "" THEN Raised(<<>>, res.exc)
        ELSE
            LET trigger == /\ Has(typing_message, "action")
                           /\ typing_message.action = "STARTED"
            IN  Returned(<<[kind |-> "Typing", trigger |-> trigger,
                            timeout |-> TypingTimeout, user_id |-> ""]
                                @@ res.args>>)

\* user_id = args.pop("user_id"); event = Typing(trigger, timeout, **args);
\* event.user_id = user_id
parse_typing_message(typing_message, args) ==
    LET has_group == Has(typing_message, "groupId")
        res == ResolveTarget(has_group,
                   IF has_group THEN typing_message.groupId ELSE <<>>, args)
    IN  IF res.exc # "" THEN Raised(<<>>, res.exc)
        ELSE
            LET trigger == /\ Has(typing_message, "action")
                           /\ typing_message.action = "STARTED"
            IN  Returned(<<[kind |-> "Typing", trigger |-> trigger,
                            timeout |-> TypingTimeout] @@ res.args>>)

\* Mutant of ParsePayloads: the typing notice handled before the data
\* message.
ParsePayloadsTypingFirst(envelope, args) ==
    LET typing == IF TruthyDictAt(envelope, "typingMessage")
                  THEN parse_typing_message(envelope.typingMessage, args)
                  ELSE Returned(<<>>)
    IN  IF typing.exc # "" THEN typing
        ELSE
            LET data == IF TruthyDictAt(envelope, "dataMessage")
                        THEN parse_data_message(envelope.dataMessage, args)
                        ELSE Returned(<<>>)
            IN  [events |-> typing.events \o data.events,
                 exc |-> data.exc]

\* The payload part of parse_packet: dataMessage, then typingMessage.
ParsePayloads(envelope, args) ==
    LET data == IF TruthyDictAt(envelope, "dataMessage")
                THEN parse_data_message(envelope.dataMessage, args)
                ELSE Returned(<<>>)
    IN  IF data.exc # "" THEN data
        ELSE
            LET typing == IF TruthyDictAt(envelope, "typingMessage")
                          THEN parse_typing_message(envelope.typingMessage,
                                                    args)
                          ELSE Returned(<<>>)
            IN  [events |-> data.events \o typing.events,
                 exc |-> typing.exc]

\* parse_packet(packet): the events it hands to the router, in order, and
\* the exception it lets through.
parse_packet(packet) ==
    LET env == EnvelopeArgs(packet)
    IN  IF env.exc # "" THEN Returned(<<>>)
        ELSE IF ~IsAllowed(env.args.user_id) THEN Returned(<<>>)
        ELSE ParsePayloads(packet.envelope, env.args)

---------------------------------------------------------------------------
(* Inputs *)

MaxAtt == 2

\* parse_packet calls in a run
MaxParsed == 2

\* polls in a run
MaxPolls == 2

\* websocket frames in a run
MaxFrames == 3

\* ClientSession objects in a run
MaxSessions == 2

\* "g1"
G1 == <<103, 49>>

\* "image/png", "video/mp4", "application/pdf"
ImagePng == <<105, 109, 97, 103, 101, 47, 112, 110, 103>>

VideoMp4 == <<118, 105, 100, 101, 111, 47, 109, 112, 52>>

ApplicationPdf == <<97, 112, 112, 108, 105, 99, 97, 116, 105, 111, 110, 47,
                    112, 100, 102>>

\* Alias tables (config "rooms", in configuration order) with allow-lists
\* (config "whitelisted-numbers").
RoomsItems == << <<"room", "group.ZzE=">>, <<"bob", "+1">> >>

Configs ==
    { [items |-> <<>>, numbers |-> <<>>],
      [items |-> RoomsItems, numbers |-> <<>>],
      [items |-> RoomsItems, numbers |-> <<"bob">>],
      [items |-> <<>>, numbers |-> <<"+2">>] }

LoopConfigs ==
    { [items |-> <<>>, numbers |-> <<>>],
      [items |-> RoomsItems, numbers |-> <<"bob">>] }

\* The optional key k of a JSON object: absent, or present with a value of vs.
Opt(k, vs) == {EmptyDict} \cup {k :> v : v \in vs}

FullEnvelope(sender) ==
    [sourceNumber |-> sender, sourceName |-> "A", timestamp |-> 100]

Restrict(d, keys) == [k \in DOMAIN d \cap keys |-> d[k]]

Reactions ==
    { EmptyDict,
      [emoji |-> "+1", targetAuthorNumber |-> "+2", targetSentTimestamp |-> 50],
      [emoji |-> "+1", isRemove |-> FALSE, targetAuthorNumber |-> "+2",
       targetSentTimestamp |-> 50],
      [emoji |-> "+1", isRemove |-> TRUE, targetAuthorNumber |-> "+2",
       targetSentTimestamp |-> 50],
      [isRemove |-> TRUE, targetAuthorNumber |-> "+2",
       targetSentTimestamp |-> 50],
      [isRemove |-> FALSE, targetAuthorNumber |-> "+2",
       targetSentTimestamp |-> 50],
      [emoji |-> "+1", targetSentTimestamp |-> 50],
      [emoji |-> "+1", targetAuthorNumber |-> "+2"] }

Attachments ==
    { [id |-> "a", contentType |-> ImagePng, filename |-> "a.png"],
      [id |-> "b", contentType |-> VideoMp4],
      [id |-> "c", contentType |-> ApplicationPdf],
      [id |-> "d"],
      [contentType |-> ImagePng] }

AttachmentLists == UNION {[1..n -> Attachments] : n \in 0..MaxAtt}

DataMessages ==
    { g @@ m @@ r @@ a :
        g \in Opt("groupInfo", {EmptyDict, [groupId |-> G1]}),
        m \in Opt("message", {"", "hi"}),
        r \in Opt("reaction", Reactions),
        a \in Opt("attachments", AttachmentLists) }

TypingMessages ==
    { EmptyDict,
      [action |-> "STARTED"],
      [action |-> "STOPPED", groupId |-> G1],
      [groupId |-> G1] }

\* Payloads that go with an incomplete envelope.
FewDataMessages ==
    { [message |-> "hi"],
      [reaction |-> [emoji |-> "+1"], attachments |-> <<[id |-> "a"]>>] }

Envelopes ==
    { FullEnvelope(s) @@ d @@ t :
        s \in {"+1", "+2"},
        d \in Opt("dataMessage", DataMessages),
        t \in Opt("typingMessage", TypingMessages) }
    \cup
    { Restrict(FullEnvelope("+1"), keys) @@ d @@ t :
        keys \in (SUBSET {"sourceNumber", "sourceName", "timestamp"})
                    \ {{"sourceNumber", "sourceName", "timestamp"}},
        d \in Opt("dataMessage", FewDataMessages),
        t \in Opt("typingMessage", {[action |-> "STARTED"]}) }

\* Every packet content the decoder is checked on.
Packets ==
    {[envelope |-> e] : e \in Envelopes}
    \cup {EmptyDict, [account |-> Number]}

\* The packets the listen loop is run on.
LoopPackets ==
    { [envelope |-> FullEnvelope("+1") @@
            [dataMessage |-> [message |-> "hi"]]],
      [envelope |-> FullEnvelope("+1") @@
            [dataMessage |->
                [message |-> "yo",
                 attachments |-> <<[id |-> "a", contentType |-> ImagePng],
                                   [id |-> "d"]>>],
             typingMessage |-> [action |-> "STARTED"]]],
      [envelope |-> FullEnvelope("+2") @@
            [dataMessage |-> [reaction |-> [emoji |-> "+1"]]]] }

\* aiohttp.WSMsgType of the frames a stream delivers
Frames ==
    {[type |-> "TEXT", data |-> p] : p \in LoopPackets}
    \cup {[type |-> "BINARY"], [type |-> "CLOSE"]}

PollResponses == UNION {[1..n -> LoopPackets] : n \in 0..MaxParsed}

AboutResponses ==
    { [mode |-> "json-rpc"], [mode |-> "normal"], [versions |-> "v1"] }

---------------------------------------------------------------------------
(* The adapter: connect, disconnect, listen *)

DefaultPollInterval == 10

\* self.config: "poll-interval" is not configured
Config == EmptyDict

ReceivePath == <<"/v1/receive/", "{number}">>

AboutPath == <<"/v1/about">>

InitAdapter(cfg) ==
    /\ rooms = DictOf(cfg.items)
    /\ whitelist = WhitelistOf(cfg.items, cfg.numbers)
    /\ inv_rooms = InvDict(cfg.items)
    /\ session = 0

\* No send_* invocation yet.
IdleSend ==
    [op |-> "", event |-> EmptyDict, call |-> "", requests |-> <<>>,
     response |-> None, result |-> None, logged |-> None, ret |-> None,
     exc |-> ""]

NoLookup == [q |-> None, fwd |-> "", rev |-> "", back |-> ""]

\* No operation has begun.
InitRun ==
    /\ sessions = <<>>
    /\ dpc = "idle"
    /\ dsession = 0
    /\ pc = "idle"
    /\ about = EmptyDict
    /\ interval = 0
    /\ msg = [type |-> "NONE"]
    /\ packets = <<>>
    /\ pending = <<>>
    /\ exc = ""
    /\ cur = EmptyDict
    /\ nparsed = 0
    /\ router = <<>>
    /\ requests = <<>>
    /\ frames = <<>>
    /\ arrived = <<>>
    /\ slept = 0
    /\ spc = "idle"
    /\ send = IdleSend
    /\ lookup = NoLookup

Init ==
    /\ \E cfg \in LoopConfigs : InitAdapter(cfg)
    /\ InitRun

listenVars == <<pc, about, interval, msg, packets, pending, exc, cur,
                nparsed, router, requests, frames, arrived, slept>>

adapterVars == <<rooms, whitelist, inv_rooms>>

sendVars == <<spc, send, lookup>>

\* connect(): self.session = aiohttp.ClientSession(raise_for_status=True)
Connect ==
    /\ Len(sessions) < MaxSessions
    /\ sessions' = Append(sessions, "open")
    /\ session' = Len(sessions) + 1
    /\ UNCHANGED <<adapterVars, sendVars, dpc, dsession, listenVars>>

\* disconnect(), up to the await: self.session.close() closes the session;
\* on None the attribute lookup raises and disconnect() ends there.
DisconnectClose ==
    /\ dpc = "idle"
    /\ session # 0
    /\ sessions' = [sessions EXCEPT ![session] = "closed"]
    /\ dsession' = session
    /\ dpc' = "closing"
    /\ UNCHANGED <<adapterVars, sendVars, session, listenVars>>

\* disconnect(), after the await: self.session = None
DisconnectClear ==
    /\ dpc = "closing"
    /\ session' = 0
    /\ dpc' = "idle"
    /\ dsession' = 0
    /\ UNCHANGED <<adapterVars, sendVars, sessions, listenVars>>

\* The exception self.session.<method>(...) raises at once, "" for none:
\* None has no attributes, a closed ClientSession refuses requests.
SessionError ==
    IF session = 0 THEN "AttributeError"
    ELSE IF sessions[session] = "closed" THEN "RuntimeError"
    ELSE ""

Request(method, parts) ==
    [method |-> method, url |-> make_url(parts), session |-> session]

\* The number of requests issued so far with this method and path.
Count(method, parts) ==
    Cardinality({i \in DOMAIN requests :
                    /\ requests[i].method = method
                    /\ requests[i].url = make_url(parts)})

\* about.get("mode") == "json-rpc"
IsJsonRpc(body) == Has(body, "mode") /\ body.mode = "json-rpc"

\* listen(), line 67: GET /v1/about is issued
ListenProbe ==
    /\ pc = "idle"
    /\ IF SessionError # ""
       THEN /\ pc' = "raised"
            /\ exc' = SessionError
            /\ UNCHANGED requests
       ELSE /\ pc' = "about"
            /\ exc' = ""
            /\ requests' = Append(requests, Request("GET", AboutPath))
    /\ about' = EmptyDict
    /\ UNCHANGED <<adapterVars, sendVars, session, sessions, dpc,
                   dsession, interval,
                   msg, packets, pending, cur, nparsed, router, frames, arrived,
                   slept>>

\* Mutant of PollRequest: the mode probed again before every poll.
PollRequestReprobe ==
    IF SessionError # ""
    THEN /\ pc' = "raised"
         /\ exc' = SessionError
         /\ UNCHANGED requests
    ELSE /\ pc' = "poll"
         /\ exc' = ""
         /\ requests' = requests \o <<Request("GET", AboutPath),
                                      Request("GET", ReceivePath)>>

\* The poll request of line 80.
PollRequest ==
    IF SessionError # ""
    THEN /\ pc' = "raised"
         /\ exc' = SessionError
         /\ UNCHANGED requests
    ELSE /\ pc' = "poll"
         /\ exc' = ""
         /\ requests' = Append(requests, Request("GET", ReceivePath))

\* The stream opening of line 73.
StreamRequest ==
    IF SessionError # ""
    THEN /\ pc' = "raised"
         /\ exc' = SessionError
         /\ UNCHANGED requests
    ELSE /\ pc' = "ws"
         /\ exc' = ""
         /\ requests' = Append(requests, Request("WS", ReceivePath))

\* listen(), lines 68-80: the probe's body arrives and selects the branch
ListenAbout(body) ==
    /\ pc = "about"
    /\ about' = body
    /\ IF IsJsonRpc(body)
       THEN StreamRequest /\ UNCHANGED interval
       ELSE /\ interval' = Get(Config, "poll-interval", DefaultPollInterval)
            /\ PollRequest
    /\ UNCHANGED <<adapterVars, sendVars, session, sessions, dpc,
                   dsession, msg,
                   packets, pending, cur, nparsed, router, frames, arrived,
                   slept>>

\* parse_packet(packet) is entered: what it will hand over and raise
ParseEnter(packet) ==
    /\ cur' = packet
    /\ nparsed' = nparsed + 1
    /\ pending' = parse_packet(packet).events
    /\ exc' = parse_packet(packet).exc
    /\ pc' = "parse"

\* async for msg in ws: a frame is read (line 74)
WsReceive(m) ==
    /\ pc = "ws"
    /\ Len(frames) < MaxFrames
    /\ m.type = "TEXT" => nparsed < MaxParsed
    /\ frames' = Append(frames, m)
    /\ arrived' = IF m.type = "TEXT" THEN Append(arrived, m.data)
                  ELSE arrived
    /\ msg' = m
    /\ pc' = "frame"
    /\ UNCHANGED <<adapterVars, sendVars, session, sessions, dpc,
                   dsession, about,
                   interval, packets, pending, exc, cur, nparsed, router,
                   requests, slept>>

\* Mutant of WsDispatch: a frame that is not TEXT ends the loop.
WsDispatchBreak ==
    /\ pc = "frame"
    /\ IF msg.type = "TEXT"
       THEN ParseEnter(msg.data)
       ELSE pc' = "done" /\ UNCHANGED <<pending, exc, cur, nparsed>>
    /\ UNCHANGED <<adapterVars, sendVars, session, sessions, dpc,
                   dsession, about,
                   interval, msg, packets, router, requests, frames,
                   arrived, slept>>

\* The loop body for the frame read (lines 74-76): a closing frame ends the
\* iteration and listen() returns; a TEXT frame is parsed; others are skipped.
WsDispatch ==
    /\ pc = "frame"
    /\ IF msg.type = "CLOSE"
       THEN pc' = "done" /\ UNCHANGED <<pending, exc, cur, nparsed>>
       ELSE IF msg.type = "TEXT"
       THEN ParseEnter(msg.data)
       ELSE pc' = "ws" /\ UNCHANGED <<pending, exc, cur, nparsed>>
    /\ UNCHANGED <<adapterVars, sendVars, session, sessions, dpc,
                   dsession, about,
                   interval, msg, packets, router, requests, frames,
                   arrived, slept>>

\* await self.opsdroid.parse(event)
Submit ==
    /\ pc = "parse"
    /\ pending # <<>>
    /\ router' = Append(router, [n |-> nparsed, event |-> Head(pending)])
    /\ pending' = Tail(pending)
    /\ UNCHANGED <<adapterVars, sendVars, session, sessions, dpc,
                   dsession, pc, about,
                   interval, msg, packets, exc, cur, nparsed, requests,
                   frames, arrived, slept>>

\* parse_packet ends: it returns to the loop it was called from, or its
\* exception leaves listen()
ParseExit ==
    /\ pc = "parse"
    /\ pending = <<>>
    /\ pc' = IF exc # "" THEN "raised"
             ELSE IF IsJsonRpc(about) THEN "ws" ELSE "iter"
    /\ UNCHANGED <<adapterVars, sendVars, session, sessions, dpc,
                   dsession, about,
                   interval, msg, packets, pending, exc, cur, nparsed,
                   router, requests, frames, arrived, slept>>

\* packets = await resp.json(content_type=None) (line 81)
PollResponse(body) ==
    /\ pc = "poll"
    /\ nparsed + Len(body) <= MaxParsed
    /\ packets' = body
    /\ arrived' = arrived \o body
    /\ pc' = "iter"
    /\ UNCHANGED <<adapterVars, sendVars, session, sessions, dpc,
                   dsession, about,
                   interval, msg, pending, exc, cur, nparsed, router,
                   requests, frames, slept>>

\* for packet in packets: the next packet, or the sleep after the last
PollIterate ==
    /\ pc = "iter"
    /\ IF packets # <<>>
       THEN /\ ParseEnter(Head(packets))
            /\ packets' = Tail(packets)
       ELSE /\ pc' = "sleep"
            /\ UNCHANGED <<packets, pending, exc, cur, nparsed>>
    /\ UNCHANGED <<adapterVars, sendVars, session, sessions, dpc,
                   dsession, about,
                   interval, msg, router, requests, frames, arrived,
                   slept>>

\* asyncio.sleep(interval) is over: the next iteration's GET
PollWake ==
    /\ pc = "sleep"
    /\ Count("GET", ReceivePath) < MaxPolls
    /\ slept' = slept + 1
    /\ PollRequest
    /\ UNCHANGED <<adapterVars, sendVars, session, sessions, dpc,
                   dsession, about,
                   interval, msg, packets, pending, cur, nparsed, router,
                   frames, arrived>>

\* A request or the stream fails in the transport (raise_for_status, a
\* connection error): the exception leaves listen()
TransportFailure ==
    /\ pc \in {"about", "poll", "ws"}
    /\ pc' = "raised"
    /\ exc' = "ClientError"
    /\ UNCHANGED <<adapterVars, sendVars, session, sessions, dpc,
                   dsession, about,
                   interval, msg, packets, pending, cur, nparsed, router,
                   requests, frames, arrived, slept>>

\* The host cancels the listen task at one of its awaits
Cancel ==
    /\ pc \in {"about", "poll", "ws", "sleep", "parse"}
    /\ pc' = "raised"
    /\ exc' = "CancelledError"
    /\ UNCHANGED <<adapterVars, sendVars, session, sessions, dpc,
                   dsession, about,
                   interval, msg, packets, pending, cur, nparsed, router,
                   requests, frames, arrived, slept>>

Next ==
    \/ Connect
    \/ DisconnectClose
    \/ DisconnectClear
    \/ ListenProbe
    \/ \E body \in AboutResponses : ListenAbout(body)
    \/ \E m \in Frames : WsReceive(m)
    \/ WsDispatch
    \/ Submit
    \/ ParseExit
    \/ \E body \in PollResponses : PollResponse(body)
    \/ PollIterate
    \/ PollWake
    \/ TransportFailure
    \/ Cancel

Spec == Init /\ [][Next]_vars

---------------------------------------------------------------------------
(* The decoder on every packet content: listen() in its streaming branch  *)
(* has just read a TEXT frame holding the packet.                         *)

InitDecode ==
    /\ \E cfg \in Configs : InitAdapter(cfg)
    /\ \E p \in Packets :
        /\ msg = [type |-> "TEXT", data |-> p]
        /\ frames = <<[type |-> "TEXT", data |-> p]>>
        /\ arrived = <<p>>
    /\ sessions = <<"open">>
    /\ dpc = "idle"
    /\ dsession = 0
    /\ pc = "frame"
    /\ about = [mode |-> "json-rpc"]
    /\ interval = 0
    /\ packets = <<>>
    /\ pending = <<>>
    /\ exc = ""
    /\ cur = EmptyDict
    /\ nparsed = 0
    /\ router = <<>>
    /\ requests = <<[method |-> "GET", url |-> make_url(AboutPath),
                     session |-> 1],
                    [method |-> "WS", url |-> make_url(ReceivePath),
                     session |-> 1]>>
    /\ slept = 0
    /\ spc = "idle"
    /\ send = IdleSend
    /\ lookup = NoLookup

NextDecode ==
    \/ WsDispatch
    \/ Submit
    \/ ParseExit

SpecDecode == InitDecode /\ [][NextDecode]_vars

---------------------------------------------------------------------------
(* EventSender: the send_* handlers.  One send runs at a time; `send` is   *)
(* the invocation that is running or was the last to end.                  *)

SendPath == <<"/v2/send">>

TypingPath == <<"/v1/typing-indicator/", "{number}">>

ReactionsPath == <<"/v1/reactions/", "{number}">>

\* Where disconnect() stands on the session self.session names, at the
\* moment a handler calls a method of it.
SessionState ==
    IF session = 0
    THEN IF sessions = <<>> THEN "never connected" ELSE "disconnected"
    ELSE IF sessions[session] = "closed" THEN "disconnecting"
    ELSE "live"

\* Mutant of get_recipients_from_event: the "if x" filter left out.
GetRecipientsUnfiltered(event) == <<lookup_target(event.target)>>

\* [x for x in (self.lookup_target(event.target),) if x]
get_recipients_from_event(event) ==
    IF lookup_target(event.target) # ""
    THEN <<lookup_target(event.target)>>
    ELSE <<>>

\* A handler invocation that has done nothing yet.
NewSend(op, event) ==
    [op |-> op, event |-> event, call |-> "", requests |-> <<>>,
     response |-> None, result |-> None, logged |-> None, ret |-> None,
     exc |-> ""]

\* async with self.session.<method>(url, json=data): on a usable session the
\* request goes out, else the call raises.
Issue(s, method, parts, data) ==
    IF SessionError # ""
    THEN [s EXCEPT !.call = SessionState, !.exc = SessionError]
    ELSE [s EXCEPT !.call = SessionState,
                   !.requests = Append(@, Request(method, parts)
                                            @@ [json |-> data])]

\* send_message(event), up to the response
send_message(event) ==
    Issue(NewSend("send_message", event), "POST", SendPath,
          [number |-> Number,
           recipients |-> get_recipients_from_event(event),
           message |-> event.text])

\* send_file(event), from the end of "await event.get_file_bytes()" up to
\* the response
send_file(s, file_bytes) ==
    Issue(s, "POST", SendPath,
          [number |-> Number,
           recipients |-> get_recipients_from_event(s.event),
           base64_attachments |-> <<B64Encode(file_bytes)>>])

\* self.session.put if event.trigger else self.session.delete
TypingMethod(trigger) == IF trigger THEN "PUT" ELSE "DELETE"

\* send_typing(event), up to the response: the method is looked up on
\* self.session first, then the recipient is taken.
send_typing(event) ==
    IF session = 0
    THEN [NewSend("send_typing", event) EXCEPT
            !.call = SessionState, !.exc = "AttributeError"]
    ELSE IF get_recipients_from_event(event) = <<>>
    THEN [NewSend("send_typing", event) EXCEPT !.exc = "IndexError"]
    ELSE Issue(NewSend("send_typing", event), TypingMethod(event.trigger),
               TypingPath,
               [recipient |-> get_recipients_from_event(event)[1]])

\* Mutant of ReactionMethod: every reaction is posted.
ReactionMethodPost(emoji) == "POST"

\* self.session.post if event.emoji else self.session.delete
ReactionMethod(emoji) == IF emoji # "" THEN "POST" ELSE "DELETE"

\* send_reaction(event), up to the response
send_reaction(event) ==
    IF session = 0
    THEN [NewSend("send_reaction", event) EXCEPT
            !.call = SessionState, !.exc = "AttributeError"]
    ELSE IF get_recipients_from_event(event) = <<>>
    THEN [NewSend("send_reaction", event) EXCEPT !.exc = "IndexError"]
    ELSE Issue(NewSend("send_reaction", event), ReactionMethod(event.emoji),
               ReactionsPath,
               [reaction |-> event.emoji,
                recipient |-> get_recipients_from_event(event)[1],
                target_author |-> event.linked_event.user_id,
                timestamp |-> event.linked_event.event_id])

\* Mutant of RaiseForStatus: a session made without raise_for_status.
RaiseForStatusOff(status) == FALSE

\* ClientSession(raise_for_status=True): a status of 400 or more raises
\* ClientResponseError.
RaiseForStatus(status) == status >= 400

\* resp.json() checks the content type, resp.json(content_type=None) does
\* not.
ChecksContentType(op) == op \in {"send_message", "send_file"}

\* logger.debug("result %s", result) is in send_message and send_file only.
LogsResult(op) == op \in {"send_message", "send_file"}

\* Mutant of ReturnValue: the handler ends with "return result".
ReturnValueResult(result) == result

\* What a handler that ends normally gives its caller: no handler has a
\* return statement.
ReturnValue(result) == None

\* The outgoing events the handlers are run on.
OutTargets == {"", "+2", "bob", "room"}

OutMessages ==
    {[kind |-> "Message", target |-> t, text |-> "hi"] : t \in OutTargets}

\* "hi"
BytesHi == <<104, 105>>

OutFiles ==
    {[kind |-> k, target |-> t, file_bytes |-> b] :
        k \in {"File", "Image", "Video"}, t \in {"", "bob"},
        b \in {BytesHi}}

OutTypings ==
    {[kind |-> "Typing", target |-> t, trigger |-> g] :
        t \in OutTargets, g \in BOOLEAN}

OutReactions ==
    {[kind |-> "Reaction", target |-> t, emoji |-> m,
      linked_event |-> [kind |-> "Event", user_id |-> "+2", event_id |-> 50]] :
        t \in OutTargets, m \in {"", "+1"}}

\* The packets whose events are answered or sent back.
ReplyPackets ==
    { [envelope |-> FullEnvelope(s) @@ [dataMessage |-> d]] :
        s \in {"+1", "+2"},
        d \in { [message |-> "hi"],
                [message |-> "hi", groupInfo |-> [groupId |-> G1]],
                [reaction |-> [emoji |-> "+1", targetAuthorNumber |-> "+2",
                               targetSentTimestamp |-> 50]],
                [reaction |-> [emoji |-> "+1", isRemove |-> TRUE,
                               targetAuthorNumber |-> "+2",
                               targetSentTimestamp |-> 50]] } }

\* The events the decoder makes of the reply packets.
InboundEvents ==
    UNION { {parse_packet(p).events[i] : i \in DOMAIN parse_packet(p).events} :
            p \in ReplyPackets }

\* The answer to an inbound event: a Message to the event's target that
\* refers to the event.
Reply(e) ==
    [kind |-> "Message", target |-> e.target, text |-> "ok",
     linked_event |-> e]

\* What a skill may hand to the connector.
SendEvents ==
    OutMessages \cup OutFiles \cup OutTypings \cup OutReactions
        \cup {e \in InboundEvents : e.kind = "Reaction"}
        \cup {Reply(e) : e \in InboundEvents}

\* The responses of the bridge to a send.
Responses ==
    {[status |-> s, content_type |-> c, body |-> b] :
        s \in {201, 400},
        c \in {"application/json", "text/plain"},
        b \in {EmptyDict, [timestamp |-> "1"]}}

\* opsdroid calls the handler registered for the event's class
\* (send_file for File and its subclasses); the handler runs up to its
\* first await.
SendBegin(event) ==
    /\ spc = "idle"
    /\ send' = IF event.kind = "Message" THEN send_message(event)
               ELSE IF event.kind = "Typing" THEN send_typing(event)
               ELSE IF event.kind = "Reaction" THEN send_reaction(event)
               ELSE NewSend("send_file", event)
    /\ spc' = IF event.kind \in {"File", "Image", "Video"} THEN "bytes"
              ELSE IF send'.exc = "" THEN "wait"
              ELSE "idle"
    /\ UNCHANGED <<adapterVars, lookup, session, sessions, dpc, dsession,
                   listenVars>>

\* send_file: event.get_file_bytes() is done
SendFileBytes ==
    /\ spc = "bytes"
    /\ send' = send_file(send, send.event.file_bytes)
    /\ spc' = IF send'.exc = "" THEN "wait" ELSE "idle"
    /\ UNCHANGED <<adapterVars, lookup, session, sessions, dpc, dsession,
                   listenVars>>

\* The response arrives: raise_for_status, then resp.json(), the debug log
\* and the end of the handler.
SendResponse(response) ==
    /\ spc = "wait"
    /\ send' =
        IF RaiseForStatus(response.status)
        THEN [send EXCEPT !.response = Some(response),
                          !.exc = "ClientResponseError"]
        ELSE IF /\ ChecksContentType(send.op)
                /\ response.content_type # "application/json"
        THEN [send EXCEPT !.response = Some(response),
                          !.exc = "ContentTypeError"]
        ELSE [send EXCEPT !.response = Some(response),
                          !.result = Some(response.body),
                          !.logged = IF LogsResult(send.op)
                                     THEN Some(response.body) ELSE None,
                          !.ret = ReturnValue(Some(response.body))]
    /\ spc' = "idle"
    /\ UNCHANGED <<adapterVars, lookup, session, sessions, dpc, dsession,
                   listenVars>>

\* The connection fails before a response arrives.
SendFailure ==
    /\ spc = "wait"
    /\ send' = [send EXCEPT !.exc = "ClientError"]
    /\ spc' = "idle"
    /\ UNCHANGED <<adapterVars, lookup, session, sessions, dpc, dsession,
                   listenVars>>

\* Alias tables of the sender: none, a group and a contact, an alias that is
\* spelled like the address of somebody else, two aliases of one address.
SendConfigs ==
    { [items |-> <<>>, numbers |-> <<>>],
      [items |-> RoomsItems, numbers |-> <<>>],
      [items |-> << <<"+2", "+1">> >>, numbers |-> <<>>],
      [items |-> << <<"bob", "+1">>, <<"rob", "+1">> >>, numbers |-> <<>>] }

InitSend ==
    /\ \E cfg \in SendConfigs : InitAdapter(cfg)
    /\ InitRun

NextSend ==
    \/ Connect
    \/ DisconnectClose
    \/ DisconnectClear
    \/ \E event \in SendEvents : SendBegin(event)
    \/ SendFileBytes
    \/ \E response \in Responses : SendResponse(response)
    \/ SendFailure

SpecSend == InitSend /\ [][NextSend]_vars

---------------------------------------------------------------------------
(* The two alias lookups on every alias table *)

\* Alias tables in configuration order
MaxAliases == 2

AliasNames == {"room", "bob", "+2"}

Addresses == {"+1", "+2", "group.ZzE="}

AliasTables ==
    { s \in UNION {[1..n -> AliasNames \X Addresses] : n \in 0..MaxAliases} :
        \A i, j \in DOMAIN s : i # j => s[i][1] # s[j][1] }

Queries == AliasNames \cup Addresses \cup {"", "carol"}

\* Mutant of InvLookup: the reverse lookup made in the forward table.
InvLookupForward(target) == Get(rooms, target, target)

\* self.inv_rooms.get(target, target)
InvLookup(target) == Get(inv_rooms, target, target)

\* Both lookups of s, and the reverse lookup of its forward lookup.
Lookup(s) ==
    /\ lookup' = [q |-> Some(s), fwd |-> lookup_target(s),
                  rev |-> InvLookup(s),
                  back |-> InvLookup(lookup_target(s))]
    /\ UNCHANGED <<adapterVars, spc, send, session, sessions, dpc, dsession,
                   listenVars>>

InitAlias ==
    /\ \E items \in AliasTables :
            InitAdapter([items |-> items, numbers |-> <<>>])
    /\ InitRun

NextAlias == \E s \in Queries : Lookup(s)

SpecAlias == InitAlias /\ [][NextAlias]_vars

---------------------------------------------------------------------------
(* What the claims speak of *)

RequiredKeys == {"sourceNumber", "sourceName", "timestamp"}

\* The packet has its envelope and every required envelope field.
Complete(packet) ==
    Has(packet, "envelope") /\ RequiredKeys \subseteq DOMAIN packet.envelope

\* Exceptions that end listen() and do not come from decoding a packet:
\* cancellation, a transport failure, a session that is gone.
NotFromDecoding ==
    {"CancelledError", "ClientError", "RuntimeError", "AttributeError"}

\* The events the router got from the n-th parse_packet call, in order.
RECURSIVE EventsOf(_, _)
EventsOf(log, n) ==
    IF log = <<>> THEN <<>>
    ELSE (IF Head(log).n = n THEN <<Head(log).event>> ELSE <<>>)
            \o EventsOf(Tail(log), n)

\* The last parse_packet call is over (it returned or raised).
ParseOver ==
    /\ nparsed > 0
    /\ pc # "parse"
    /\ exc # "CancelledError"

\* The packet holds a payload that makes an event: a typing notice, or a
\* data message with a reaction, a text or an attachment.
HasPayload(packet) ==
    /\ Complete(packet)
    /\ \/ TruthyDictAt(packet.envelope, "typingMessage")
       \/ /\ TruthyDictAt(packet.envelope, "dataMessage")
          /\ \/ TruthyDictAt(packet.envelope.dataMessage, "reaction")
             \/ TruthyStrAt(packet.envelope.dataMessage, "message")
             \/ /\ Has(packet.envelope.dataMessage, "attachments")
                /\ packet.envelope.dataMessage.attachments # <<>>

\* C1 (as claimed): decoding a packet never raises to the listen loop;
\* whatever ends listen() with an exception, it is not the decoding of a
\* packet.
C1_DecodeNeverRaises ==
    pc = "raised" => exc \in NotFromDecoding

\* Position of an event kind in the order of the events of one packet.
Rank(kind) ==
    IF kind \in {"Reaction", "Message"} THEN 0
    ELSE IF kind = "Typing" THEN 2
    ELSE 1

\* The index in the packet's attachments array of the attachment a media
\* event was made from (the ids of one packet's attachments are distinct).
AttachmentIndex(e) ==
    CHOOSE k \in DOMAIN e.raw_event.envelope.dataMessage.attachments :
        e.url = BridgeUrl \o "/v1/attachments/"
                    \o e.raw_event.envelope.dataMessage.attachments[k].id

\* C2: the router gets the events of one packet in the order
\* Reaction/Message, media events in attachment order, Typing; every event
\* of a packet comes before any event of the next packet; the packets are
\* taken in arrival order (frame order, response-array order).
C2_EventOrder ==
    /\ \A i \in DOMAIN router :
        /\ router[i].n \in DOMAIN arrived
        /\ router[i].event.raw_event = arrived[router[i].n]
    /\ \A i, j \in DOMAIN router :
        i < j =>
            /\ router[i].n <= router[j].n
            /\ router[i].n = router[j].n =>
                /\ Rank(router[i].event.kind) <= Rank(router[j].event.kind)
                /\ ( /\ Rank(router[i].event.kind) = 1
                     /\ Rank(router[j].event.kind) = 1 ) =>
                        AttachmentIndex(router[i].event)
                            < AttachmentIndex(router[j].event)
                /\ Rank(router[i].event.kind) # 1 =>
                        router[i].event.kind # router[j].event.kind

\* C2 witness: two packets decoded, the second with a Message, two media
\* events and a Typing event, all handed over.
C2_Witness ==
    /\ nparsed = 2
    /\ pending = <<>>
    /\ Len(EventsOf(router, 1)) = 1
    /\ Len(EventsOf(router, 2)) = 4
    /\ EventsOf(router, 2)[4].kind = "Typing"

\* C3: with a non-empty allow-set the router gets no event of a packet
\* whose sender is not in it; with an empty allow-set no packet is dropped
\* for its sender (a packet with a complete envelope and a payload, decoded
\* without error, gives at least one event).
C3_AccessFilter ==
    /\ whitelist # {} =>
        \A i \in DOMAIN router :
            router[i].event.raw_event.envelope.sourceNumber \in whitelist
    /\ ( /\ whitelist = {}
         /\ ParseOver
         /\ exc = ""
         /\ HasPayload(cur) ) => EventsOf(router, nparsed) # <<>>

\* C3 witness: a packet with a payload from a sender outside the non-empty
\* allow-set was decoded and gave nothing.
C3_Witness ==
    /\ whitelist # {}
    /\ ParseOver
    /\ HasPayload(cur)
    /\ cur.envelope.sourceNumber \notin whitelist
    /\ router = <<>>

\* C4: a packet without envelope or without a required envelope field
\* gives no event and no error, whatever else it contains.
C4_IncompleteDropped ==
    (nparsed > 0 /\ ~Complete(cur)) =>
        /\ EventsOf(router, nparsed) = <<>>
        /\ pending = <<>>
        /\ exc = ""
        /\ pc # "raised"

\* C4 witness: a packet with an envelope that lacks a required field and
\* holds a data message and a typing notice was decoded.
C4_Witness ==
    /\ ParseOver
    /\ pc = "ws"
    /\ Has(cur, "envelope")
    /\ ~Complete(cur)
    /\ Has(cur.envelope, "dataMessage")
    /\ Has(cur.envelope, "typingMessage")

\* "group." and the base64 form of the raw group ids of the inputs.
EncodedGroup(group_id) ==
    IF group_id = G1 THEN "group.ZzE=" ELSE "?"

\* The backend address of the payload an event was made from: the encoded
\* group id when the payload names a group, else the sender address.
BackendAddress(e) ==
    LET env == e.raw_event.envelope
    IN  IF e.kind = "Typing"
        THEN IF Has(env.typingMessage, "groupId")
             THEN EncodedGroup(env.typingMessage.groupId)
             ELSE env.sourceNumber
        ELSE IF /\ Has(env.dataMessage, "groupInfo")
                /\ Has(env.dataMessage.groupInfo, "groupId")
             THEN EncodedGroup(env.dataMessage.groupInfo.groupId)
             ELSE env.sourceNumber

\* target is address seen through the reverse alias table: an alias of it
\* when it has one, else the address itself.
IsResolved(target, address) ==
    IF \E a \in DOMAIN rooms : rooms[a] = address
    THEN target \in DOMAIN rooms /\ rooms[target] = address
    ELSE target = address

\* C5: the target of every event the router gets (and of a Reaction's
\* linked reference) is the alias of the packet's backend address when it
\* has one, and the backend address otherwise.
C5_TargetResolved ==
    \A i \in DOMAIN router :
        LET e == router[i].event
        IN  /\ IsResolved(e.target, BackendAddress(e))
            /\ e.kind = "Reaction" =>
                IsResolved(e.linked_event.target, BackendAddress(e))

\* C5 witness: with the group aliased, the router got a Reaction on the
\* group under its alias, and a Typing event of an aliased sender.
C5_Witness ==
    /\ \E i \in DOMAIN router :
        /\ router[i].event.kind = "Reaction"
        /\ router[i].event.target = "room"
        /\ router[i].event.linked_event.target = "room"
    /\ \E i \in DOMAIN router :
        /\ router[i].event.kind = "Typing"
        /\ router[i].event.target = "bob"

\* The number of events of one kind among evs.
CountKind(evs, kind) ==
    Cardinality({i \in DOMAIN evs : evs[i].kind = kind})

\* C6 (as claimed): of a data message, a present Reaction gives exactly one
\* Reaction event (emoji "" on isRemove, else the given emoji) and no
\* Message event; else a present text gives exactly one Message event with
\* that text; else neither event is made.
C6_ReactionOrMessage ==
    ( /\ ParseOver
      /\ Complete(cur)
      /\ IsAllowed(cur.envelope.sourceNumber)
      /\ TruthyDictAt(cur.envelope, "dataMessage") ) =>
        LET dm == cur.envelope.dataMessage
            evs == EventsOf(router, nparsed)
        IN  IF TruthyDictAt(dm, "reaction")
            THEN /\ CountKind(evs, "Reaction") = 1
                 /\ CountKind(evs, "Message") = 0
                 /\ \A i \in DOMAIN evs : evs[i].kind = "Reaction" =>
                        evs[i].emoji = IF TruthyBoolAt(dm.reaction, "isRemove")
                                       THEN "" ELSE dm.reaction.emoji
            ELSE IF TruthyStrAt(dm, "message")
            THEN /\ CountKind(evs, "Message") = 1
                 /\ CountKind(evs, "Reaction") = 0
                 /\ \A i \in DOMAIN evs : evs[i].kind = "Message" =>
                        evs[i].text = dm.message
            ELSE /\ CountKind(evs, "Message") = 0
                 /\ CountKind(evs, "Reaction") = 0

IsProbe(r) == r.method = "GET" /\ r.url = BridgeUrl \o "/v1/about"

IsStreamOpen(r) ==
    r.method = "WS" /\ r.url = BridgeUrl \o "/v1/receive/" \o QuotedNumber

IsPoll(r) ==
    r.method = "GET" /\ r.url = BridgeUrl \o "/v1/receive/" \o QuotedNumber

\* listen() is past the request of line 67.
Probed ==
    pc \in {"about", "ws", "frame", "parse", "poll", "iter", "sleep", "done"}

\* C7: a listen() invocation probes /v1/about exactly once, before any
\* receive request or stream opening; the branch follows the probe's mode
\* ("json-rpc": the stream, else polling) and is kept: no invocation both
\* opens the stream and polls.
C7_ProbeOnceModeFixed ==
    /\ Cardinality({i \in DOMAIN requests : IsProbe(requests[i])}) <= 1
    /\ (Probed \/ requests # <<>>) =>
        Cardinality({i \in DOMAIN requests : IsProbe(requests[i])}) = 1
    /\ \A i \in DOMAIN requests :
        (IsStreamOpen(requests[i]) \/ IsPoll(requests[i])) =>
            \E j \in 1..(i - 1) : IsProbe(requests[j])
    /\ \A i \in DOMAIN requests :
        /\ IsStreamOpen(requests[i]) =>
            (Has(about, "mode") /\ about.mode = "json-rpc")
        /\ IsPoll(requests[i]) =>
            ~(Has(about, "mode") /\ about.mode = "json-rpc")
    /\ ~\E i, j \in DOMAIN requests :
            IsStreamOpen(requests[i]) /\ IsPoll(requests[j])

\* C7 witness: a polling listen() that has issued its second poll.
C7_Witness ==
    /\ Cardinality({i \in DOMAIN requests : IsPoll(requests[i])}) = 2
    /\ Cardinality({i \in DOMAIN requests : IsProbe(requests[i])}) = 1
    /\ pc = "poll"

\* C8 (as claimed): in polling mode the loop does not end on its own:
\* once it polls, listen() ends only by cancellation or a transport
\* failure, whatever the polled packets hold.
C8_PollingNeverEnds ==
    (\E i \in DOMAIN requests : IsPoll(requests[i])) =>
        /\ pc # "done"
        /\ pc = "raised" => exc \in NotFromDecoding

\* The data of the TEXT frames among fs, in order.
RECURSIVE TextData(_)
TextData(fs) ==
    IF fs = <<>> THEN <<>>
    ELSE (IF Head(fs).type = "TEXT" THEN <<Head(fs).data>> ELSE <<>>)
            \o TextData(Tail(fs))

\* The events of the packets ps, packet after packet.
RECURSIVE AllEvents(_)
AllEvents(ps) ==
    IF ps = <<>> THEN <<>>
    ELSE parse_packet(Head(ps)).events \o AllEvents(Tail(ps))

\* The frames whose loop body is over.
Handled == IF pc = "frame" THEN SubSeq(frames, 1, Len(frames) - 1)
           ELSE frames

\* C9: in streaming mode each TEXT frame is decoded as one packet and its
\* events reach the router before the next frame is read, other frames
\* give no event; listen() returns when the stream closes and only then,
\* and the stream is opened once.
C9_Streaming ==
    /\ Cardinality({i \in DOMAIN requests : IsStreamOpen(requests[i])}) <= 1
    /\ (pc = "done") <=>
            (Handled # <<>> /\ Handled[Len(Handled)].type = "CLOSE")
    /\ frames # <<>> =>
        /\ \E i \in DOMAIN requests : IsStreamOpen(requests[i])
        /\ pc \in {"ws", "frame", "done"} =>
            /\ nparsed = Len(TextData(Handled))
            /\ pending = <<>>
            /\ [i \in DOMAIN router |-> router[i].event]
                    = AllEvents(TextData(Handled))
            /\ \A k \in 1..nparsed :
                EventsOf(router, k) = parse_packet(TextData(Handled)[k]).events

\* C9 witness: the stream delivered a TEXT frame that gave events, a
\* BINARY frame, and closed; listen() has returned.
C9_Witness ==
    /\ pc = "done"
    /\ Len(frames) = 3
    /\ frames[1].type = "TEXT"
    /\ frames[2].type = "BINARY"
    /\ Len(router) = 4

\* C10 (as claimed): whatever connect() and disconnect() calls were made,
\* at most one Session is live (created and not closed).
C10_OneLiveSession ==
    Cardinality({i \in DOMAIN sessions : sessions[i] = "open"}) <= 1

---------------------------------------------------------------------------
(* What the claims on the sender and on the alias tables speak of *)

\* C11 (as claimed): whatever the interleaving of the send_* handlers with
\* disconnect(), no handler issues its request on a session that
\* disconnect() is closing or has put away.
C11_NoCallDuringDisconnect ==
    send.call \notin {"disconnecting", "disconnected"}

\* The recipients a request names.
RecipientsOf(r) ==
    IF Has(r.json, "recipients") THEN r.json.recipients
    ELSE <<r.json.recipient>>

\* The address the forward alias table gives for a target.
ForwardResolved(target) ==
    IF target \in DOMAIN rooms THEN rooms[target] ELSE target

\* The handler is at or past its request on a session that took the call.
PastRequest ==
    /\ send.op # ""
    /\ spc \in {"wait", "idle"}
    /\ send.exc \notin {"AttributeError", "RuntimeError"}

\* C12 (as claimed): for an outgoing event of any variant and any target,
\* the empty one included, the handler issues exactly one request, and the
\* recipient it names is the target seen through the forward alias table.
C12_OneRequestPerEvent ==
    PastRequest =>
        /\ Len(send.requests) = 1
        /\ \A k \in DOMAIN RecipientsOf(send.requests[1]) :
            RecipientsOf(send.requests[1])[k]
                = ForwardResolved(send.event.target)

\* Exceptions of a send that come from the bridge or the connection.
RemoteFailures == {"ClientResponseError", "ContentTypeError", "ClientError"}

\* C13: send_message on a usable session does not fail locally and issues
\* exactly one POST /v2/send; its recipients list is empty for an empty
\* target and holds exactly the resolved address for any other target.
C13_MessageRecipients ==
    (send.op = "send_message" /\ send.call = "live") =>
        /\ send.exc \in {""} \cup RemoteFailures
        /\ Len(send.requests) = 1
        /\ send.requests[1].method = "POST"
        /\ send.requests[1].url = BridgeUrl \o "/v2/send"
        /\ send.requests[1].json.recipients
                = IF send.event.target = "" THEN <<>>
                  ELSE <<ForwardResolved(send.event.target)>>

\* C13 witness: a Message with an empty target has its request out, with an
\* empty recipients list.
C13_Witness ==
    /\ send.op = "send_message"
    /\ send.event.target = ""
    /\ spc = "wait"
    /\ Len(send.requests) = 1
    /\ send.requests[1].json.recipients = <<>>

\* The Reaction event was decoded from an inbound removal.
IsInboundRemoval(e) ==
    /\ Has(e, "raw_event")
    /\ TruthyBoolAt(e.raw_event.envelope.dataMessage.reaction, "isRemove")

\* C14: send_reaction issues a DELETE on the reactions endpoint for an
\* empty emoji and a POST for any other, never the other verb; a Reaction
\* decoded from an inbound removal and sent back out is a DELETE.
C14_ReactionVerb ==
    send.op = "send_reaction" =>
        \A i \in DOMAIN send.requests :
            /\ send.requests[i].url
                    = BridgeUrl \o "/v1/reactions/" \o QuotedNumber
            /\ send.requests[i].method
                    = IF send.event.emoji = "" THEN "DELETE" ELSE "POST"
            /\ IsInboundRemoval(send.event) =>
                    send.requests[i].method = "DELETE"

\* C14 witness: a Reaction decoded from an inbound removal is sent back out
\* and its request is a DELETE.
C14_Witness ==
    /\ send.op = "send_reaction"
    /\ IsInboundRemoval(send.event)
    /\ spc = "wait"
    /\ Len(send.requests) = 1
    /\ send.requests[1].method = "DELETE"

\* The bridge answered with a status outside 2xx.
GotFailureStatus ==
    /\ send.response # None
    /\ send.response[1].status \notin 200..299

\* C15: a send never issues more than one request; when the response has a
\* non-success status the handler ends with ClientResponseError, having
\* issued that one request and read no body.
C15_FailureSurfaced ==
    /\ Len(send.requests) <= 1
    /\ GotFailureStatus =>
        /\ spc = "idle"
        /\ send.exc = "ClientResponseError"
        /\ Len(send.requests) = 1
        /\ send.result = None

\* C15 witness: send_file got a 400 response and ended with the error.
C15_Witness ==
    /\ send.op = "send_file"
    /\ GotFailureStatus
    /\ send.exc = "ClientResponseError"
    /\ spc = "idle"

\* The handler ended without an exception.
SendSucceeded ==
    /\ send.op # ""
    /\ spc = "idle"
    /\ send.exc = ""

\* C16 (as claimed): a send that succeeds returns the response body to its
\* caller.
C16_ReturnsBody ==
    SendSucceeded => send.ret = Some(send.response[1].body)

\* C16 (amended): a send that succeeds has read the response body, has
\* logged it when it is send_message or send_file, and returns None.
C16_ReadsBodyReturnsNone ==
    SendSucceeded =>
        /\ send.result = Some(send.response[1].body)
        /\ send.logged = IF send.op \in {"send_message", "send_file"}
                         THEN send.result ELSE None
        /\ send.ret = None

\* C16 witness: send_message succeeded on a response with a body.
C16_Witness ==
    /\ SendSucceeded
    /\ send.op = "send_message"
    /\ send.response[1].body = [timestamp |-> "1"]

\* No two aliases of the table name the same address.
Injective ==
    \A a, b \in DOMAIN rooms : rooms[a] = rooms[b] => a = b

\* Some alias of the table names this address.
IsMapped(x) == \E a \in DOMAIN rooms : rooms[a] = x

\* C17: in an injective alias table the forward lookup of an alias gives
\* its address and the reverse lookup of that address gives the alias
\* back; a string that is no alias passes the forward lookup unchanged and
\* a string that is no mapped address passes the reverse lookup unchanged.
C17_AliasRoundTrip ==
    lookup.q # None =>
        /\ (Injective /\ lookup.q[1] \in DOMAIN rooms) =>
            /\ lookup.fwd = rooms[lookup.q[1]]
            /\ lookup.back = lookup.q[1]
        /\ lookup.q[1] \notin DOMAIN rooms => lookup.fwd = lookup.q[1]
        /\ ~IsMapped(lookup.q[1]) => lookup.rev = lookup.q[1]

\* C17 witness: the alias "bob" of the address "+2" was looked up in an
\* injective table in which "+2" is an alias too.
C17_Witness ==
    /\ Injective
    /\ lookup.q = Some("bob")
    /\ lookup.fwd = "+2"
    /\ lookup.back = "bob"
    /\ "+2" \in DOMAIN rooms

\* C18: every event the router gets has the sender address, the display
\* name and the timestamp of its packet's envelope as user id, user and
\* event id; the linked reference of a Reaction has the author address and
\* the sent timestamp of the message reacted to.
C18_EnvelopeIdentity ==
    \A i \in DOMAIN router :
        /\ router[i].event.user_id
                = arrived[router[i].n].envelope.sourceNumber
        /\ router[i].event.user = arrived[router[i].n].envelope.sourceName
        /\ router[i].event.event_id
                = arrived[router[i].n].envelope.timestamp
        /\ router[i].event.kind = "Reaction" =>
            /\ router[i].event.linked_event.user_id
                = arrived[router[i].n].envelope.dataMessage.reaction
                        .targetAuthorNumber
            /\ router[i].event.linked_event.event_id
                = arrived[router[i].n].envelope.dataMessage.reaction
                        .targetSentTimestamp

\* C18 witness: of one packet from "+1" the router got a Reaction to a
\* message of "+2", a media event and a Typing event.
C18_Witness ==
    /\ Len(router) = 3
    /\ router[1].event.kind = "Reaction"
    /\ router[1].event.user_id = "+1"
    /\ router[1].event.linked_event.user_id = "+2"
    /\ router[3].event.kind = "Typing"
    /\ router[3].event.user_id = "+1"

IsMedia(e) == e.kind \in {"Image", "Video", "File"}

\* The part of a MIME type before its first '/' is this word.
HasPrefix(mimetype, word) ==
    /\ Len(mimetype) >= Len(word)
    /\ SubSeq(mimetype, 1, Len(word)) = word
    /\ Len(mimetype) > Len(word) => <<mimetype[Len(word) + 1]>> = Slash

\* The kind of media event an attachment should give.
ExpectedKind(attachment) ==
    IF ~Has(attachment, "contentType") THEN "File"
    ELSE IF HasPrefix(attachment.contentType, StrImage) THEN "Image"
    ELSE IF HasPrefix(attachment.contentType, StrVideo) THEN "Video"
    ELSE "File"

\* C19 (as claimed): the media events of a data message are one per
\* attachment, in attachment order, whatever its reaction or text; the kind
\* of each follows the part of the MIME type before the first '/' ("image":
\* Image, "video": Video, anything else or no MIME type: File); without
\* attachments there is no media event.
C19_OneMediaEventEach ==
    ( /\ ParseOver
      /\ Complete(cur)
      /\ IsAllowed(cur.envelope.sourceNumber)
      /\ TruthyDictAt(cur.envelope, "dataMessage") ) =>
        LET atts == Get(cur.envelope.dataMessage, "attachments", <<>>)
            media == SelectSeq(EventsOf(router, nparsed), IsMedia)
        IN  /\ Len(media) = Len(atts)
            /\ \A k \in DOMAIN media :
                    media[k].kind = ExpectedKind(atts[k])

\* C20 (as claimed): the request of a Message sent to the target of an
\* inbound event names as its one recipient the backend address (sender or
\* encoded group) the inbound event was decoded from, whatever the alias
\* table.
C20_ReplyReachesSender ==
    (send.op = "send_message" /\ Has(send.event, "linked_event")) =>
        \A i \in DOMAIN send.requests :
            send.requests[i].json.recipients
                = <<BackendAddress(send.event.linked_event)>>

====
